---- MODULE Spec2Model ----
(***************************************************************************)
(* Search-and-evaluation core of the chess engine in src/main.py:          *)
(* evaluate_board, alpha_beta and select_move.  The python-chess Board is  *)
(* the external rules engine; it is modelled by what the three functions   *)
(* read from it (turn, terminal status, piece counts, legal moves) and by  *)
(* push/pop on a move stack.                                               *)
(***************************************************************************)
EXTENDS Integers, Sequences, FiniteSets, TLC

VARIABLES board, move_stack, frames, ret, result, query, answer

vars == <<board, move_stack, frames, ret, result, query, answer>>

(***************************************************************************)
(* Bounds of the model.                                                    *)
(***************************************************************************)
\* most pieces of one kind and colour on a board handed to evaluate_board
MaxCount == 1
\* most legal moves in a position of a searched game tree
MaxMoves == 2
\* most pawns one side is ahead in a position of a searched game tree
MaxMaterial == 1
\* most nodes of a game tree handed to the search as a whole
MaxNodes == 5

(***************************************************************************)
(* Program constants.                                                      *)
(***************************************************************************)
\* the depth play_game passes to select_move
SearchDepth == 3
\* float('inf'): above every material score
Inf == 1000
\* Python's None, the initial best_move
None == 0

WHITE == TRUE
BLACK == FALSE
Colors == {WHITE, BLACK}
Kinds == {"PAWN", "KNIGHT", "BISHOP", "ROOK", "QUEEN"}

\* the weight table of evaluate_board
values == [k \in Kinds |->
             CASE k = "PAWN" -> 1
               [] k = "KNIGHT" -> 3
               [] k = "BISHOP" -> 3
               [] k = "ROOK" -> 5
               [] k = "QUEEN" -> 9]

\* no call has returned yet
NoAnswer == [op |-> "none"]

max(a, b) == IF b > a THEN b ELSE a
min(a, b) == IF b < a THEN b ELSE a

(***************************************************************************)
(* The rules engine's view of a position.  status is what the terminal     *)
(* queries report: "playing" (not over), "checkmate", "stalemate",         *)
(* "insufficient" (material) or "seventyfive" (over by the seventy-five    *)
(* move or fivefold repetition rule).  pieces is the piece count per colour *)
(* and kind.                                                               *)
(***************************************************************************)
Statuses == {"playing", "checkmate", "stalemate", "insufficient", "seventyfive"}

is_checkmate(b) == b.status = "checkmate"
is_stalemate(b) == b.status = "stalemate"
is_insufficient_material(b) == b.status = "insufficient"
is_game_over(b) == b.status # "playing"

\* len(board.pieces(piece, color))
pieces(b, piece, color) == b.pieces[color][piece]

RECURSIVE SumOver(_, _)
SumOver(S, f) ==
  IF S = {} THEN 0
  ELSE LET k == CHOOSE x \in S : TRUE IN f[k] + SumOver(S \ {k}, f)

\* Faulty variant: the checkmate sign taken from the side that is NOT to move.
evaluate_board_flipped(b) ==
  IF is_checkmate(b) THEN (IF b.turn THEN Inf ELSE -Inf)
  ELSE IF is_stalemate(b) \/ is_insufficient_material(b) THEN 0
  ELSE SumOver(Kinds, [k \in Kinds |->
         pieces(b, k, WHITE) * values[k] - pieces(b, k, BLACK) * values[k]])

\* Faulty variant: only the draw by insufficient material scores 0.
evaluate_board_no_stalemate(b) ==
  IF is_checkmate(b) THEN (IF ~b.turn THEN Inf ELSE -Inf)
  ELSE IF is_insufficient_material(b) THEN 0
  ELSE SumOver(Kinds, [k \in Kinds |->
         pieces(b, k, WHITE) * values[k] - pieces(b, k, BLACK) * values[k]])

evaluate_board(b) ==
  IF is_checkmate(b) THEN (IF ~b.turn THEN Inf ELSE -Inf)
  ELSE IF is_stalemate(b) \/ is_insufficient_material(b) THEN 0
  ELSE SumOver(Kinds, [k \in Kinds |->
         pieces(b, k, WHITE) * values[k] - pieces(b, k, BLACK) * values[k]])

(***************************************************************************)
(* Boards.  A position drawn by insufficient material holds no pawn, rook  *)
(* or queen and at most one knight, which then is the only minor piece.    *)
(***************************************************************************)
PieceCounts(n) == [Colors -> [Kinds -> 0..n]]

Total(p, k) == p[WHITE][k] + p[BLACK][k]

CanBeInsufficient(p) ==
  /\ Total(p, "PAWN") = 0 /\ Total(p, "ROOK") = 0 /\ Total(p, "QUEEN") = 0
  /\ Total(p, "KNIGHT") <= 1
  /\ Total(p, "KNIGHT") = 1 => Total(p, "BISHOP") = 0

StatusFits(s, p) == s = "insufficient" => CanBeInsufficient(p)

EvalBoards ==
  {b \in [turn : Colors, status : Statuses, pieces : PieceCounts(MaxCount)] :
     StatusFits(b.status, b.pieces)}

(***************************************************************************)
(* Specification SpecEval: evaluate_board applied to any board.            *)
(***************************************************************************)
InitEval ==
  /\ board \in EvalBoards
  /\ move_stack = <<>>
  /\ frames = <<>>
  /\ ret = 0
  /\ result = None
  /\ query = [op |-> "evaluate_board"]
  /\ answer = NoAnswer

Evaluate ==
  /\ query.op = "evaluate_board"
  /\ answer = NoAnswer
  /\ answer' = [op |-> "evaluate_board", value |-> evaluate_board(board)]
  /\ UNCHANGED <<board, move_stack, frames, ret, result, query>>

NextEval == Evaluate

SpecEval == InitEval /\ [][NextEval]_vars

Material(b) ==
  SumOver(Kinds, [k \in Kinds |-> (b.pieces[WHITE][k] - b.pieces[BLACK][k]) * values[k]])

\* C6: evaluate_board returns +infinity for a checkmate with Black to move,
\* -infinity for a checkmate with White to move, exactly 0 for a stalemate or a
\* draw by insufficient material (checkmate first), and leaves the position as
\* it was.
C6_TerminalScoring ==
  [][answer'.op = "evaluate_board" =>
       /\ (is_checkmate(board) /\ board.turn = BLACK) => answer'.value = Inf
       /\ (is_checkmate(board) /\ board.turn = WHITE) => answer'.value = -Inf
       /\ (~is_checkmate(board) /\ (is_stalemate(board) \/ is_insufficient_material(board)))
            => answer'.value = 0
       /\ board' = board /\ move_stack' = move_stack]_vars

\* A stalemate in which the material is not level has been scored.
C6_Witness ==
  /\ answer.op = "evaluate_board"
  /\ is_stalemate(board)
  /\ Material(board) # 0

(***************************************************************************)
(* Specification Spec: select_move and alpha_beta step by step.  frames is *)
(* the call stack, one record per active call, the running call last.      *)
(* A position of the search is the root and the moves pushed since.  The   *)
(* rules engine answers each query when the code makes it: push gives the  *)
(* side to move and the terminal status of the new position, the           *)
(* legal_moves generator yields one move at a time, and the piece counts   *)
(* are drawn when evaluate_board reads them (once per position).           *)
(***************************************************************************)
\* the longest game the rules engine allows from the root, in plies
MaxPly == SearchDepth + 1

PawnsOnly(w, b) ==
  [c \in Colors |-> [k \in Kinds |->
     IF k = "PAWN" THEN (IF c = WHITE THEN w ELSE b) ELSE 0]]

\* the piece counts of the searched positions: one side up to MaxMaterial pawns ahead
SearchPieces ==
  {PawnsOnly(w, 0) : w \in 0..MaxMaterial} \cup {PawnsOnly(0, b) : b \in 0..MaxMaterial}

\* the positions a move can lead to, `ply` plies from the root
Positions(turn, ply) ==
  {b \in [turn : {turn}, status : Statuses] : ply >= MaxPly => is_game_over(b)}

\* evaluate_board on a position whose piece counts are p
WithPieces(b, p) == [turn |-> b.turn, status |-> b.status, pieces |-> p]
Scores(b) ==
  {evaluate_board(WithPieces(b, p)) : p \in {q \in SearchPieces : StatusFits(b.status, q)}}

\* board.legal_moves is empty exactly in checkmate and stalemate
has_legal_moves(b) == ~(is_checkmate(b) \/ is_stalemate(b))
\* the generator yields a move after i moves / is exhausted after i moves
yields(b, i) == has_legal_moves(b) /\ i < MaxMoves
exhausted(b, i) == IF has_legal_moves(b) THEN i >= 1 ELSE i = 0

\* board.push(move)
push(stack, b, move) == Append(stack, [move |-> move, from |-> b])
\* board.pop(): the position before the last push
popped_board(stack) == stack[Len(stack)].from
popped_stack(stack) == SubSeq(stack, 1, Len(stack) - 1)

Top == frames[Len(frames)]
Running(fn, pc) == frames # <<>> /\ Top.fn = fn /\ Top.pc = pc
SetTop(f) == [frames EXCEPT ![Len(frames)] = f]
Drop == SubSeq(frames, 1, Len(frames) - 1)

\* a call's frame; entry_board and entry_stack record the position at the call
Frame(fn, depth, alpha, beta, maximizing, value, pc, b, stack) ==
  [fn |-> fn, depth |-> depth, alpha |-> alpha, beta |-> beta,
   maximizing |-> maximizing, value |-> value, best_move |-> None,
   i |-> 0, pc |-> pc, alpha_in |-> alpha, beta_in |-> beta,
   entry_board |-> b, entry_stack |-> stack]

Init ==
  /\ board \in Positions(WHITE, 0) \cup Positions(BLACK, 0)
  /\ move_stack = <<>>
  /\ frames = <<>>
  /\ ret = 0
  /\ result = None
  /\ query \in [op : {"select_move"}, depth : 0..SearchDepth]
  /\ answer = NoAnswer

\* select_move, lines 72-75
SelectCall ==
  /\ frames = <<>> /\ answer = NoAnswer
  /\ frames' = <<Frame("select_move", query.depth, -Inf, Inf, board.turn,
                       IF board.turn THEN -Inf ELSE Inf, "loop", board, move_stack)>>
  /\ UNCHANGED <<board, move_stack, ret, result, query, answer>>

\* the flag select_move passes to its alpha_beta call, read after the push (line 79)
first_level_flag(b) == ~b.turn

\* Faulty variant: the depth is passed on as it is.
child_depth_same(depth) == depth

\* the depth passed to a recursive call (lines 54, 64, 79)
child_depth(depth) == depth - 1

\* select_move, lines 77-79: the next legal move is pushed and searched
SelectPush ==
  /\ Running("select_move", "loop")
  /\ yields(board, Top.i)
  /\ \E nb \in Positions(~board.turn, Len(move_stack) + 1) :
       /\ board' = nb
       /\ move_stack' = push(move_stack, board, Top.i + 1)
       /\ frames' = Append(SetTop([Top EXCEPT !.i = @ + 1, !.pc = "called"]),
                           Frame("alpha_beta", child_depth(Top.depth), -Inf, Inf,
                                 first_level_flag(nb), 0, "entry", nb, move_stack'))
  /\ UNCHANGED <<ret, result, query, answer>>

\* Faulty variant: a later move of equal score replaces the best move.
better_or_equal(turn, val, best_val) ==
  \/ turn /\ val >= best_val
  \/ ~turn /\ val <= best_val

\* the comparisons of lines 82 and 84
better(turn, val, best_val) ==
  \/ turn /\ val > best_val
  \/ ~turn /\ val < best_val

\* select_move, lines 80-85: pop, then keep the move if it is strictly better
SelectAfter ==
  /\ Running("select_move", "called")
  /\ board' = popped_board(move_stack)
  /\ move_stack' = popped_stack(move_stack)
  /\ LET val == ret
         move == move_stack[Len(move_stack)].move
         keep == better(board'.turn, val, Top.value)
     IN frames' = SetTop([Top EXCEPT !.pc = "loop",
                                     !.value = IF keep THEN val ELSE @,
                                     !.best_move = IF keep THEN move ELSE @])
  /\ ret' = 0
  /\ UNCHANGED <<result, query, answer>>

\* select_move, line 87
SelectReturn ==
  /\ Running("select_move", "loop")
  /\ exhausted(board, Top.i)
  /\ result' = Top.best_move
  /\ answer' = [op |-> "select_move", move |-> Top.best_move]
  /\ frames' = Drop
  /\ UNCHANGED <<board, move_stack, ret, query>>

\* alpha_beta, lines 47-48
ABBase ==
  /\ Running("alpha_beta", "entry")
  /\ Top.depth = 0 \/ is_game_over(board)
  /\ ret' \in Scores(board)
  /\ frames' = Drop
  /\ UNCHANGED <<board, move_stack, result, query, answer>>

\* alpha_beta, lines 50-51 and 60-61
ABEnter ==
  /\ Running("alpha_beta", "entry")
  /\ ~(Top.depth = 0 \/ is_game_over(board))
  /\ frames' = SetTop([Top EXCEPT !.value = IF Top.maximizing THEN -Inf ELSE Inf,
                                  !.pc = "loop"])
  /\ UNCHANGED <<board, move_stack, ret, result, query, answer>>

\* alpha_beta, lines 52-54 and 62-64: the next legal move is pushed and searched
ABPush ==
  /\ Running("alpha_beta", "loop")
  /\ yields(board, Top.i)
  /\ \E nb \in Positions(~board.turn, Len(move_stack) + 1) :
       /\ board' = nb
       /\ move_stack' = push(move_stack, board, Top.i + 1)
       /\ frames' = Append(SetTop([Top EXCEPT !.i = @ + 1, !.pc = "called"]),
                           Frame("alpha_beta", child_depth(Top.depth), Top.alpha, Top.beta,
                                 ~Top.maximizing, 0, "entry", nb, move_stack'))
  /\ UNCHANGED <<ret, result, query, answer>>

\* Faulty variant: the window bound is set to the value, not to the better of the two.
narrowed_to_value(f, v) ==
  LET value == IF f.maximizing THEN max(f.value, v) ELSE min(f.value, v)
      alpha == IF f.maximizing THEN value ELSE f.alpha
      beta == IF f.maximizing THEN f.beta ELSE value
      cut == IF f.maximizing THEN alpha >= beta ELSE beta <= alpha
  IN [f EXCEPT !.value = value, !.alpha = alpha, !.beta = beta,
               !.pc = IF cut THEN "break" ELSE "loop"]

\* Faulty variant: the minimizing branch tests the cutoff the wrong way round.
narrowed_cut_reversed(f, v) ==
  LET value == IF f.maximizing THEN max(f.value, v) ELSE min(f.value, v)
      alpha == IF f.maximizing THEN max(f.alpha, value) ELSE f.alpha
      beta == IF f.maximizing THEN f.beta ELSE min(f.beta, value)
      cut == IF f.maximizing THEN alpha >= beta ELSE beta >= alpha
  IN [f EXCEPT !.value = value, !.alpha = alpha, !.beta = beta,
               !.pc = IF cut THEN "break" ELSE "loop"]

\* Faulty variant: the value is the last score, not the best so far.
narrowed_last_score(f, v) ==
  LET value == v
      alpha == IF f.maximizing THEN max(f.alpha, value) ELSE f.alpha
      beta == IF f.maximizing THEN f.beta ELSE min(f.beta, value)
      cut == IF f.maximizing THEN alpha >= beta ELSE beta <= alpha
  IN [f EXCEPT !.value = value, !.alpha = alpha, !.beta = beta,
               !.pc = IF cut THEN "break" ELSE "loop"]

\* the frame after lines 54-58 (maximizing) or 64-68 (minimizing) took the score v
narrowed(f, v) ==
  LET value == IF f.maximizing THEN max(f.value, v) ELSE min(f.value, v)
      alpha == IF f.maximizing THEN max(f.alpha, value) ELSE f.alpha
      beta == IF f.maximizing THEN f.beta ELSE min(f.beta, value)
      cut == IF f.maximizing THEN alpha >= beta ELSE beta <= alpha
  IN [f EXCEPT !.value = value, !.alpha = alpha, !.beta = beta,
               !.pc = IF cut THEN "break" ELSE "loop"]

\* Faulty variant: the cutoff leaves the loop before the pop.
ABAfter_BreakBeforePop ==
  /\ Running("alpha_beta", "called")
  /\ frames' = SetTop(narrowed(Top, ret))
  /\ IF narrowed(Top, ret).pc = "break" THEN UNCHANGED <<board, move_stack>>
     ELSE /\ board' = popped_board(move_stack)
          /\ move_stack' = popped_stack(move_stack)
  /\ ret' = 0
  /\ UNCHANGED <<result, query, answer>>

\* alpha_beta, lines 54-58 and 64-68: take the child's score, pop, narrow the
\* window, and leave the loop when the window is empty
ABAfter ==
  /\ Running("alpha_beta", "called")
  /\ board' = popped_board(move_stack)
  /\ move_stack' = popped_stack(move_stack)
  /\ frames' = SetTop(narrowed(Top, ret))
  /\ ret' = 0
  /\ UNCHANGED <<result, query, answer>>

\* alpha_beta, lines 59 and 69
ABReturn ==
  /\ \/ Running("alpha_beta", "break")
     \/ Running("alpha_beta", "loop") /\ exhausted(board, Top.i)
  /\ ret' = Top.value
  /\ frames' = Drop
  /\ UNCHANGED <<board, move_stack, result, query, answer>>

Next ==
  \/ SelectCall
  \/ SelectPush
  \/ SelectAfter
  \/ SelectReturn
  \/ ABBase
  \/ ABEnter
  \/ ABPush
  \/ ABAfter
  \/ ABReturn

Spec == Init /\ [][Next]_vars


(***************************************************************************)
(* Specification SpecTree: alpha_beta and select_move as functions of a    *)
(* game tree.  A tree is the part of a position's game tree a search of    *)
(* the given depth can read: a node holds its board and, unless the game   *)
(* is over there or the depth is used up, the positions its legal moves    *)
(* lead to, in the order legal_moves yields them.                          *)
(***************************************************************************)
Level == PawnsOnly(0, 0)

\* boards of the nodes without successors in a tree cut `depth` plies below them:
\* a position still playing only where the depth is used up
LeafBoards(turn, depth) ==
  {b \in [turn : {turn}, status : Statuses \ {"insufficient"}, pieces : SearchPieces] :
     /\ b.status \in {"checkmate", "stalemate"} => b.pieces = Level
     /\ b.status = "playing" => depth = 0
     /\ b.status = "seventyfive" => depth > 0}

Leaf(b) == [board |-> b, kids |-> <<>>]

\* an expanded node: its piece counts are never read
Inner(turn, kids) ==
  [board |-> [turn |-> turn, status |-> "playing", pieces |-> Level], kids |-> kids]

RECURSIVE Size(_)
Size(t) ==
  1 + SumOver(DOMAIN t.kids, [i \in DOMAIN t.kids |-> Size(t.kids[i])])

\* the trees with one node more than t: a node without successors gets a first
\* legal move, or a node gets one more legal move, after those it has
RECURSIVE Grown(_, _)
Grown(t, depth) ==
  IF depth = 0 THEN {}
  ELSE LET turn == t.board.turn
           more == {Leaf(b) : b \in LeafBoards(~turn, depth - 1)}
       IN (IF t.kids = <<>> THEN {Inner(turn, <<l>>) : l \in more}
           ELSE IF Len(t.kids) < MaxMoves
                  THEN {[t EXCEPT !.kids = Append(@, l)] : l \in more}
                  ELSE {})
          \cup UNION {{[t EXCEPT !.kids[i] = g] : g \in Grown(t.kids[i], depth - 1)} :
                        i \in DOMAIN t.kids}

\* alpha_beta, lines 45-69; the loop of lines 52-58 (62-68) from move i on, f
\* holding value, alpha and beta
RECURSIVE alpha_beta(_, _, _, _, _), alpha_beta_loop(_, _, _, _)
alpha_beta(t, depth, alpha, beta, maximizing) ==
  IF depth = 0 \/ is_game_over(t.board) THEN evaluate_board(t.board)
  ELSE alpha_beta_loop(t, depth, 1,
         [maximizing |-> maximizing, alpha |-> alpha, beta |-> beta, pc |-> "loop",
          value |-> IF maximizing THEN -Inf ELSE Inf])
alpha_beta_loop(t, depth, i, f) ==
  IF i > Len(t.kids) \/ f.pc = "break" THEN f.value
  ELSE alpha_beta_loop(t, depth, i + 1,
         narrowed(f, alpha_beta(t.kids[i], child_depth(depth), f.alpha, f.beta,
                                ~f.maximizing)))

\* the score select_move gives the i-th legal move (lines 78-80)
move_score(t, depth, i) ==
  alpha_beta(t.kids[i], child_depth(depth), -Inf, Inf, first_level_flag(t.kids[i].board))

\* select_move, lines 72-87; the loop from move i on
RECURSIVE select_move_loop(_, _, _, _, _)
select_move_loop(t, depth, i, best_val, best_move) ==
  IF i > Len(t.kids) THEN best_move
  ELSE LET val == move_score(t, depth, i)
           keep == better(t.board.turn, val, best_val)
       IN select_move_loop(t, depth, i + 1,
                           IF keep THEN val ELSE best_val,
                           IF keep THEN i ELSE best_move)

select_move(t, depth) ==
  select_move_loop(t, depth, 1, IF t.board.turn THEN -Inf ELSE Inf, None)

\* the scores a window can hold, and the windows alpha < beta
WindowScores == {-Inf, Inf} \cup (-MaxMaterial..MaxMaterial)
Windows == {w \in WindowScores \X WindowScores : w[1] < w[2]}
FullWindow == <<-Inf, Inf>>

InitTree ==
  /\ query \in UNION {[pos : {Leaf(b) : b \in LeafBoards(turn, d)}, depth : {d}] :
                        turn \in Colors, d \in 0..SearchDepth}
  /\ board = query.pos.board
  /\ move_stack = <<>>
  /\ frames = <<>>
  /\ ret = 0
  /\ result = None
  /\ answer = NoAnswer

\* the rules engine: the position's game tree has one node more
Grow ==
  /\ answer = NoAnswer
  /\ Size(query.pos) < MaxNodes
  /\ \E t \in Grown(query.pos, query.depth) :
       /\ query' = [query EXCEPT !.pos = t]
       /\ board' = t.board
  /\ UNCHANGED <<move_stack, frames, ret, result, answer>>

\* alpha_beta on the tree, under every window
AlphaBetaCall ==
  /\ answer = NoAnswer
  /\ \E maximizing \in BOOLEAN :
       answer' = [op |-> "alpha_beta", maximizing |-> maximizing,
                  value |-> [w \in Windows |->
                    alpha_beta(query.pos, query.depth, w[1], w[2], maximizing)]]
  /\ UNCHANGED <<board, move_stack, frames, ret, result, query>>

\* select_move on the tree; it reads the root's legal moves whatever its status
SelectMoveCall ==
  /\ answer = NoAnswer
  /\ query.depth >= 1
  /\ query.pos.board.status # "seventyfive"
  /\ answer' = [op |-> "select_move", move |-> select_move(query.pos, query.depth)]
  /\ result' = answer'.move
  /\ UNCHANGED <<board, move_stack, frames, ret, query>>

NextTree ==
  \/ Grow
  \/ AlphaBetaCall
  \/ SelectMoveCall

SpecTree == InitTree /\ [][NextTree]_vars


(***************************************************************************)
(* Properties of the step-by-step search (Spec).                           *)
(***************************************************************************)
Calls == 1..Len(frames)
\* the calls from the k-th on that have pushed a move and not yet popped it: the
\* calls nested in the k-th, and the running call between a return and its pop
Nesting(k) == Cardinality({j \in k..Len(frames) : frames[j].pc = "called"})
IsPrefix(p, q) == Len(p) <= Len(q) /\ SubSeq(q, 1, Len(p)) = p

\* C1: select_move with depth >= 1 returns None only if the root has no legal
\* move: from a root with a legal move it returns one of the root's legal moves.
C1_NoneOnlyWithoutMoves ==
  (answer.op = "select_move" /\ query.depth >= 1 /\ has_legal_moves(board)) =>
     answer.move \in 1..MaxMoves

C7_WhiteMaximizes ==
  query.depth >= 1 =>
    \A k \in Calls :
      frames[k].fn = "alpha_beta" =>
        (frames[k].maximizing <=> frames[k].entry_board.turn = WHITE)

DepthBounded ==
  /\ \A k \in Calls : frames[k].fn = "alpha_beta" => frames[k].depth >= 0
  /\ Len(move_stack) <= query.depth

\* C8 as stated: for every select_move call with depth >= 0 every alpha_beta
\* call gets a depth >= 0 and never more than depth moves are pushed.
C8_BoundedRecursion == DepthBounded

\* How far the search has come: before the call, in it, or returned; then, call
\* by call from the outermost, how far the call's loop has come (a call that
\* does not exist yet or any more counts as finished).
Finished == 2 * MaxMoves + 2
Step(f) ==
  CASE f.pc = "entry" -> 0
    [] f.pc = "called" -> 2 * f.i
    [] f.pc \in {"loop", "break"} -> 2 * f.i + 1
Phase == IF answer.op # "none" THEN 2 ELSE IF frames # <<>> THEN 1 ELSE 0
Progress == <<Phase>> \o [k \in 1..(MaxPly + 2) |->
                            IF k <= Len(frames) THEN Step(frames[k]) ELSE Finished]
Before(p, q) ==
  \E k \in DOMAIN p : p[k] < q[k] /\ \A j \in 1..(k - 1) : p[j] = q[j]

\* a step of the search can be taken
CanStep ==
  \/ frames = <<>>
  \/ Top.pc \in {"called", "break", "entry"}
  \/ Top.pc = "loop" /\ (yields(board, Top.i) \/ exhausted(board, Top.i))

\* C8 amended: for every select_move call with depth >= 1 every alpha_beta
\* call gets a depth >= 0, never more than depth moves are pushed, and the call
\* returns: every step takes the search further, over finitely many stages, and
\* a step can be taken until select_move has returned.
C8_BoundedRecursionFromOne ==
  [][query.depth >= 1 =>
       /\ DepthBounded'
       /\ Before(Progress, Progress')
       /\ answer'.op = "none" => CanStep']_vars

\* a search of the full depth stands at a leaf, SearchDepth moves pushed
C8_Witness ==
  /\ query.depth = SearchDepth
  /\ Len(move_stack) = SearchDepth
  /\ Running("alpha_beta", "entry") /\ Top.depth = 0

\* C9: alpha never decreases and beta never increases within a call, and a
\* call made by alpha_beta gets a window inside the one its caller got.
C9_WindowMonotone ==
  [][/\ \A k \in 1..Len(frames') :
          /\ frames'[k].alpha >= frames'[k].alpha_in
          /\ frames'[k].beta <= frames'[k].beta_in
          /\ (k > 1 /\ frames'[k - 1].fn = "alpha_beta") =>
               /\ frames'[k].alpha_in >= frames'[k - 1].alpha_in
               /\ frames'[k].beta_in <= frames'[k - 1].beta_in
     /\ \A k \in 1..Len(frames) :
          k <= Len(frames') =>
            /\ frames'[k].alpha >= frames[k].alpha
            /\ frames'[k].beta <= frames[k].beta]_vars

\* a call runs under a window narrowed on both sides
C9_Witness ==
  \E k \in Calls :
    /\ frames[k].fn = "alpha_beta"
    /\ frames[k].alpha_in > -Inf /\ frames[k].beta_in < Inf
    /\ frames[k].alpha > frames[k].alpha_in


(***************************************************************************)
(* Properties of the search as a function of the game tree (SpecTree).     *)
(***************************************************************************)
SetMax(S) == CHOOSE x \in S : \A y \in S : y <= x
SetMin(S) == CHOOSE x \in S : \A y \in S : y >= x

\* exhaustive minimax: every legal move of every node is searched
RECURSIVE minimax(_, _, _)
minimax(t, depth, maximizing) ==
  IF depth = 0 \/ is_game_over(t.board) THEN evaluate_board(t.board)
  ELSE LET scores == {minimax(t.kids[i], depth - 1, ~maximizing) : i \in DOMAIN t.kids}
       IN IF maximizing THEN SetMax(scores) ELSE SetMin(scores)

\* the nodes alpha_beta visits
RECURSIVE visited(_, _, _, _, _), visited_loop(_, _, _, _)
visited(t, depth, alpha, beta, maximizing) ==
  IF depth = 0 \/ is_game_over(t.board) THEN 1
  ELSE 1 + visited_loop(t, depth, 1,
             [maximizing |-> maximizing, alpha |-> alpha, beta |-> beta, pc |-> "loop",
              value |-> IF maximizing THEN -Inf ELSE Inf])
visited_loop(t, depth, i, f) ==
  IF i > Len(t.kids) \/ f.pc = "break" THEN 0
  ELSE visited(t.kids[i], depth - 1, f.alpha, f.beta, ~f.maximizing)
       + visited_loop(t, depth, i + 1,
           narrowed(f, alpha_beta(t.kids[i], depth - 1, f.alpha, f.beta, ~f.maximizing)))

Exact == minimax(query.pos, query.depth, answer.maximizing)

\* C2: under the full window alpha_beta returns the score of the exhaustive
\* minimax for the same position, depth and flag.
C2_PruningEquivalence ==
  answer.op = "alpha_beta" => answer.value[FullWindow] = Exact

\* a search under the full window that skipped a node and returned a finite score
C2_Witness ==
  /\ answer.op = "alpha_beta"
  /\ visited(query.pos, query.depth, -Inf, Inf, answer.maximizing) < Size(query.pos)
  /\ answer.value[FullWindow] \notin {-Inf, Inf}

\* C10: under a window alpha < beta, with m the exhaustive minimax score, the
\* returned v is m if alpha < m < beta, is <= alpha if m <= alpha, and is
\* >= beta if m >= beta.
C10_BoundSoundness ==
  answer.op = "alpha_beta" =>
    LET m == Exact
    IN \A w \in Windows :
         LET v == answer.value[w]
         IN /\ (w[1] < m /\ m < w[2]) => v = m
            /\ m <= w[1] => v <= w[1]
            /\ m >= w[2] => v >= w[2]

\* a cutoff returned a bound that is not the exact score
C10_Witness ==
  /\ answer.op = "alpha_beta"
  /\ \E w \in Windows :
       /\ Exact < w[1]
       /\ answer.value[w] # Exact
       /\ visited(query.pos, query.depth, w[1], w[2], answer.maximizing) < Size(query.pos)

RootMoves == DOMAIN query.pos.kids
Score(i) == move_score(query.pos, query.depth, i)
RootTurn == query.pos.board.turn

\* C4: the move select_move returns has the highest score of the root's legal
\* moves when White is to move and the lowest when Black is, and no legal
\* move before it has the same score.
C4_RootSelection ==
  (answer.op = "select_move" /\ answer.move # None) =>
    /\ answer.move \in RootMoves
    /\ \A i \in RootMoves :
         IF RootTurn = WHITE THEN Score(i) <= Score(answer.move)
                             ELSE Score(i) >= Score(answer.move)
    /\ \A j \in 1..(answer.move - 1) : Score(j) # Score(answer.move)

\* the first of two moves of the same, finite score was returned
C4_Witness ==
  /\ answer.op = "select_move"
  /\ answer.move = 1
  /\ Len(query.pos.kids) >= 2
  /\ Score(2) = Score(1) /\ Score(1) \notin {-Inf, Inf}

MateInOne ==
  /\ answer.op = "select_move"
  /\ RootTurn = WHITE
  /\ \E i \in RootMoves : is_checkmate(query.pos.kids[i].board)

\* C5 as stated: with White to move and a legal move that checkmates Black,
\* select_move returns a move that checkmates at once.
C5_MateInOne ==
  MateInOne =>
    /\ answer.move # None
    /\ is_checkmate(query.pos.kids[answer.move].board)

\* C5 amended: the returned move is the first legal move of score +infinity,
\* and with depth 1 or 2 it checkmates at once.
C5_MateInOneFirstInfinite ==
  MateInOne =>
    /\ answer.move \in RootMoves
    /\ Score(answer.move) = Inf
    /\ \A j \in 1..(answer.move - 1) : Score(j) # Inf
    /\ query.depth <= 2 => is_checkmate(query.pos.kids[answer.move].board)

\* the mating move was returned though it is not the first legal move
C5_Witness ==
  /\ MateInOne
  /\ answer.move >= 2
  /\ is_checkmate(query.pos.kids[answer.move].board)

====
